---- MODULE Spec2Model ----
(***************************************************************************)
(* metalsmith-layouts, lib/index.js: the per-run function returned by      *)
(* plugin(opts).  Strings that the code takes apart (file keys, layout     *)
(* ids, template paths) are sequences of tokens in which "." and "/" are   *)
(* tokens of their own, so that split('/'), /\./ and path.parse are        *)
(* computed on them as the code computes them.                             *)
(***************************************************************************)
EXTENDS Integers, Sequences, FiniteSets

\* Bound: the largest number of files in the collection handed to a run.
MaxFiles == 3

\* JavaScript's undefined (an absent option, an absent field).
Undefined == <<"#undefined">>

\* The file keys a collection is drawn from.
FileKeys == { <<"a", ".", "md">>, <<"a", ".", "html">>, <<"posts", "/", "b", ".", "md">> }

\* The values of a file's layout field: absent, empty, without and with extension,
\* and in a directory whose name has a dot.
LayoutIds == { Undefined, <<>>, <<"post">>, <<"post", ".", "html">>,
               <<"v", ".", "1", "/", "post">> }

\* The values of the options the run reads.
Defaults == { Undefined, <<"post">> }
LayoutExtensions == { <<>>, <<"html">> }
Patterns == { Undefined, <<"*", ".", "md">> }

\* The values of the engine option: absent, empty, a renderer of consolidate, a
\* name consolidate does not have, and consolidate's property that is no renderer.
EngineNames == { Undefined, <<>>, <<"handlebars">>, <<"doesnotexist">>, <<"requires">> }

\* consolidate: its renderers, and every property name it answers to
Renderers == { <<"handlebars">> }
ConsolidateProperties == Renderers \cup { <<"requires">> }

\* Bound: the largest collection handed to a run that follows a modelled setup.
SetupMaxFiles == 2

\* contents is a Buffer or a string.
Kinds == { "Buffer", "String" }
InputKinds == { "Buffer" }

VARIABLES
  optsArg,    \* the argument of plugin(opts): its form ("undefined", "string", "object") and options
  opts,       \* the options mapped to local variables: engine, def, layoutExtension, pattern, rename
  input,      \* the collection as the caller supplied it: input[i] is record i and its key
  files,      \* the collection: key -> record (0: no such key)
  contents,   \* record -> its contents field
  templates,  \* resolved template path -> file key, in insertion order
  matches,    \* file key -> record, in insertion order
  pc,         \* "setup", "setupThrown", "ready", "phase1", "phase2", "thrown"
  idx,        \* async.each: the next item of the running loop
  looped,     \* async.each: the loop has handed out every item (key === null)
  completed,  \* async.each: iterators started and not yet called back
  called,     \* async.each: the _once guard of the loop's callback
  tasks,      \* the renderer invocations, in the order they were made
  doneCalls,  \* the caller's done: one entry per invocation (0: no error, else the failing task)
  mergePc,      \* Data Merge: "off", "start", "cloned", "merged"
  params,       \* Data Merge: the extra params
  metadata,     \* Data Merge: metalsmith.metadata()
  fileData,     \* Data Merge: the file's record (data)
  clonedParams, \* Data Merge: the deep clone of params
  clone,        \* Data Merge: the context handed to the renderer
  tops,         \* sharing: the objects (sources, clones, contexts): property -> value
  heap,         \* sharing: the nested objects: object -> the value it holds
  built,        \* sharing: render r has built its context
  mutations     \* sharing: the writes the renderers have made

vars == <<optsArg, opts, input, files, contents, templates, matches, pc, idx, looped,
          completed, called, tasks, doneCalls,
          mergePc, params, metadata, fileData, clonedParams, clone,
          tops, heap, built, mutations>>

runVars == <<optsArg, opts, input, files, contents, templates, matches, pc, idx, looped,
             completed, called, tasks, doneCalls>>

mergeVars == <<mergePc, params, metadata, fileData, clonedParams, clone>>

shareVars == <<tops, heap, built, mutations>>

----------------------------------------------------------------------------
(* Strings *)

\* s.lastIndexOf(tok) + 1 (0 when tok does not occur)
LastIndexOf(s, tok) ==
  LET hits == { i \in 1..Len(s) : s[i] = tok }
  IN IF hits = {} THEN 0 ELSE CHOOSE i \in hits : \A j \in hits : j <= i

\* JavaScript truthiness of a string-or-undefined value
Truthy(v) == v # Undefined /\ v # <<>>

\* layout.split('/').pop()
LastSegment(s) == SubSeq(s, LastIndexOf(s, "/") + 1, Len(s))

\* path.parse(file): dir (with its separator), name, ext
PathParse(file) ==
  LET slash == LastIndexOf(file, "/")
      base  == SubSeq(file, slash + 1, Len(file))
      dot   == LastIndexOf(base, ".")
  IN [dir  |-> SubSeq(file, 1, slash),
      name |-> IF dot > 1 THEN SubSeq(base, 1, dot - 1) ELSE base,
      ext  |-> IF dot > 1 THEN SubSeq(base, dot, Len(base)) ELSE <<>>]

\* path.join(fileInfo.dir, fileInfo.name + '.html')
RenamedKey(file) ==
  LET fileInfo == PathParse(file)
  IN fileInfo.dir \o fileInfo.name \o <<".", "html">>

\* every key the collection can hold during a run
AllKeys == FileKeys \cup { RenamedKey(k) : k \in FileKeys }

\* metalsmith.path(dir, p) with dir = opts.directory || 'layouts'
MetalsmithPath(p) == <<"layouts", "/">> \o p

----------------------------------------------------------------------------
(* Path Resolver *)

\* layout = layout || def
LayoutOrDefault(layout) == IF Truthy(layout) THEN layout ELSE opts.def

\* getLayoutPath(undefined) with no default: undefined.split throws a TypeError
GetLayoutPathThrows(layout) == LayoutOrDefault(layout) = Undefined

\* getLayoutPath testing the whole id for a dot, not its last segment
getLayoutPathWholeId(layout) ==
  LET l == LayoutOrDefault(layout)
  IN IF LastIndexOf(l, ".") = 0
     THEN l \o <<".">> \o opts.layoutExtension
     ELSE l

getLayoutPath(layout) ==
  LET l == LayoutOrDefault(layout)
  IN IF LastIndexOf(LastSegment(l), ".") = 0
     THEN l \o <<".">> \o opts.layoutExtension
     ELSE l

\* metalsmith.path(dir, getLayoutPath(data[layoutKey]))
TemplateOf(layout) == MetalsmithPath(getLayoutPath(layout))

----------------------------------------------------------------------------
(* Selector *)

\* match(file, pattern)[0]: the pattern "*.md" matches a key by its extension
Match(file, pattern) ==
  /\ Len(file) >= 2
  /\ file[Len(file)] = pattern[Len(pattern)]
  /\ file[Len(file) - 1] = "."

\* check(files, file, pattern, def, layoutKey)
check(file, layout) ==
  IF opts.pattern # Undefined
  THEN Match(file, opts.pattern) \/ Truthy(layout)
  ELSE Truthy(layout) \/ Truthy(opts.def)

\* data.contents.toString()
contentsToString(c) == [c EXCEPT !.kind = "String"]

\* templates[template] (0: undefined)
TemplateSeed(tpls, template) ==
  LET hits == { j \in 1..Len(tpls) : tpls[j].template = template }
  IN IF hits = {} THEN 0 ELSE CHOOSE j \in hits : TRUE

\* SelectStep without the else: a file that seeds a template is a follower as well
SelectStepNoElse(i, st) ==
  LET file     == input[i].key
      layout   == input[i].layout
      coerced  == [st EXCEPT !.contents[i] = contentsToString(st.contents[i])]
      template == TemplateOf(layout)
      seeded   == IF TemplateSeed(st.templates, template) = 0
                  THEN [coerced EXCEPT !.templates =
                          Append(@, [template |-> template, file |-> file])]
                  ELSE coerced
  IN IF ~check(file, layout) THEN st
     ELSE IF GetLayoutPathThrows(layout) THEN [coerced EXCEPT !.thrown = TRUE]
     ELSE [seeded EXCEPT !.matches = Append(@, [file |-> file, data |-> i])]

\* one iteration of Object.keys(files).forEach over st = [templates, matches, contents, thrown]
SelectStep(i, st) ==
  LET file     == input[i].key
      layout   == input[i].layout
      coerced  == [st EXCEPT !.contents[i] = contentsToString(st.contents[i])]
      template == TemplateOf(layout)
  IN IF ~check(file, layout) THEN st
     ELSE IF GetLayoutPathThrows(layout) THEN [coerced EXCEPT !.thrown = TRUE]
     ELSE IF TemplateSeed(st.templates, template) = 0
     THEN [coerced EXCEPT !.templates = Append(@, [template |-> template, file |-> file])]
     ELSE [coerced EXCEPT !.matches = Append(@, [file |-> file, data |-> i])]

RECURSIVE SelectLoop(_, _)
SelectLoop(i, st) ==
  IF i > Len(input) \/ st.thrown THEN st
  ELSE SelectLoop(i + 1, SelectStep(i, st))

\* the per-run function up to and including the selection loop
SelectFiles ==
  /\ pc = "ready"
  /\ LET st == SelectLoop(1, [templates |-> <<>>, matches |-> <<>>,
                              contents |-> contents, thrown |-> FALSE])
     IN /\ templates' = st.templates
        /\ matches' = st.matches
        /\ contents' = st.contents
        /\ pc' = IF st.thrown THEN "thrown" ELSE "phase1"
  /\ idx' = 1
  /\ looped' = FALSE
  /\ completed' = 0
  /\ called' = FALSE
  /\ UNCHANGED <<optsArg, opts, input, files, tasks, doneCalls, mergeVars, shareVars>>

----------------------------------------------------------------------------
(* async.each and the two-phase driver *)

\* the closure state of the running async.each, with the program position
Ctl == [pc |-> pc, idx |-> idx, looped |-> looped, completed |-> completed,
        called |-> called, doneCalls |-> doneCalls]

\* the caller's completion callback
done(err, c) == [c EXCEPT !.doneCalls = Append(@, err)]

\* renderFiles without the return: phase 2 begins after a failed phase 1 as well
renderFilesNoReturn(err, c) ==
  LET c1 == IF err # 0 THEN done(err, c) ELSE c
  IN [c1 EXCEPT !.pc = "phase2", !.idx = 1, !.looped = FALSE,
                !.completed = 0, !.called = FALSE]

\* renderFiles(err): on success, each(Object.keys(matches), convert, done) begins
renderFiles(err, c) ==
  IF err # 0 THEN done(err, c)
  ELSE [c EXCEPT !.pc = "phase2", !.idx = 1, !.looped = FALSE,
                 !.completed = 0, !.called = FALSE]

\* the loop's callback without the _once guard
EachCallbackNoOnce(err, c) ==
  LET c1 == [c EXCEPT !.called = TRUE]
  IN IF c.pc = "phase1" THEN renderFiles(err, c1) ELSE done(err, c1)

\* callback = _once(callback): renderFiles in phase 1, done in phase 2
EachCallback(err, c) ==
  IF c.called THEN c
  ELSE LET c1 == [c EXCEPT !.called = TRUE]
       IN IF c.pc = "phase1" THEN renderFiles(err, c1) ELSE done(err, c1)

\* the iterator callback that does not wait for the other iterators
EachDoneEager(err, c) ==
  LET c1 == [c EXCEPT !.completed = @ - 1]
  IN EachCallback(err, c1)

\* the callback async.each hands to each iterator
EachDone(err, c) ==
  LET c1 == [c EXCEPT !.completed = @ - 1]
  IN IF err # 0 THEN EachCallback(err, c1)
     ELSE IF c1.looped /\ c1.completed <= 0 THEN EachCallback(0, c1)
     ELSE c1

SetCtl(c) ==
  /\ pc' = c.pc
  /\ idx' = c.idx
  /\ looped' = c.looped
  /\ completed' = c.completed
  /\ called' = c.called
  /\ doneCalls' = c.doneCalls

\* the file keys the running loop iterates: the values of templates, the keys of matches
Items ==
  IF pc = "phase1" THEN [j \in 1..Len(templates) |-> templates[j].file]
  ELSE [j \in 1..Len(matches) |-> matches[j].file]

\* the loop of async.eachSeries: the next iterator waits for the one before it
EachLoopRunsSeries ==
  /\ pc \in {"phase1", "phase2"}
  /\ ~looped
  /\ idx <= Len(Items)
  /\ completed = 0

\* the loop of async.each has an item left: its iterator is called whatever is in flight
EachLoopRuns ==
  /\ pc \in {"phase1", "phase2"}
  /\ ~looped
  /\ idx <= Len(Items)

\* convert(file, done) up to the call of the renderer
ConvertStart ==
  /\ EachLoopRuns
  /\ LET file == Items[idx]
         data == files[file]
     IN IF data = 0 \/ GetLayoutPathThrows(input[data].layout)
        THEN /\ pc' = "thrown"
             /\ UNCHANGED <<files, tasks, idx, completed>>
        ELSE IF opts.engine \notin Renderers
        THEN \* render = consolidate[engine] is no function: render(...) throws
             /\ pc' = "thrown"
             /\ files' = IF opts.rename THEN [files EXCEPT ![file] = 0] ELSE files
             /\ UNCHANGED <<tasks, idx, completed>>
        ELSE /\ tasks' = Append(tasks,
                  [phase  |-> pc,
                   arg    |-> file,
                   data   |-> data,
                   file   |-> IF opts.rename THEN RenamedKey(file) ELSE file,
                   layout |-> input[data].layout,
                   str    |-> TemplateOf(input[data].layout),
                   ctx    |-> contents[data],
                   status |-> "pending",
                   finished |-> 0,
                   message |-> <<>>])
             /\ files' = IF opts.rename THEN [files EXCEPT ![file] = 0] ELSE files
             /\ idx' = idx + 1
             /\ completed' = completed + 1
             /\ pc' = pc
  /\ UNCHANGED <<optsArg, opts, input, contents, templates, matches, looped, called,
                 doneCalls, mergeVars, shareVars>>

\* the end of async.each's loop: key === null, and callback(null) when nothing is in flight
EachFinish ==
  /\ pc \in {"phase1", "phase2"}
  /\ ~looped
  /\ idx > Len(Items)
  /\ LET c1 == [Ctl EXCEPT !.looped = TRUE]
     IN SetCtl(IF completed = 0 THEN EachCallback(0, c1) ELSE c1)
  /\ UNCHANGED <<optsArg, opts, input, files, contents, templates, matches, tasks, mergeVars, shareVars>>

\* the renderer may call back at once (inside the iterator) or after the loop
CanCallBack(t) ==
  /\ pc \in {"phase1", "phase2"}
  /\ t \in 1..Len(tasks)
  /\ tasks[t].status = "pending"
  /\ looped \/ t = Len(tasks)

\* new Buffer(str), str the layout applied to the context
Rendered(ctx) == [kind |-> "Buffer", depth |-> ctx.depth + 1]

\* the number of renderer callbacks made so far
Finished == Cardinality({ u \in 1..Len(tasks) : tasks[u].status # "pending" })

\* err.message: "Error rendering template `" + data[layoutKey] + "` for file `" + file + "`. "
ErrorMessage(task) == [layout |-> task.layout, file |-> task.file]

\* render's callback with err, without the return: the record is stored all the same
RenderFailsNoReturn(t) ==
  /\ CanCallBack(t)
  /\ tasks' = [tasks EXCEPT ![t].status = "err", ![t].finished = Finished + 1,
                            ![t].message = ErrorMessage(tasks[t])]
  /\ contents' = [contents EXCEPT ![tasks[t].data] = Rendered(tasks[t].ctx)]
  /\ files' = [files EXCEPT ![tasks[t].file] = tasks[t].data]
  /\ SetCtl(EachDone(t, Ctl))
  /\ UNCHANGED <<optsArg, opts, input, templates, matches, mergeVars, shareVars>>

\* render's callback with err
RenderFails(t) ==
  /\ CanCallBack(t)
  /\ tasks' = [tasks EXCEPT ![t].status = "err", ![t].finished = Finished + 1,
                            ![t].message = ErrorMessage(tasks[t])]
  /\ SetCtl(EachDone(t, Ctl))
  /\ UNCHANGED <<optsArg, opts, input, files, contents, templates, matches, mergeVars, shareVars>>

\* render's callback without err
RenderSucceeds(t) ==
  /\ CanCallBack(t)
  /\ contents' = [contents EXCEPT ![tasks[t].data] = Rendered(tasks[t].ctx)]
  /\ files' = [files EXCEPT ![tasks[t].file] = tasks[t].data]
  /\ tasks' = [tasks EXCEPT ![t].status = "ok", ![t].finished = Finished + 1]
  /\ SetCtl(EachDone(0, Ctl))
  /\ UNCHANGED <<optsArg, opts, input, templates, matches, mergeVars, shareVars>>

----------------------------------------------------------------------------
(* Data Merge *)

\* An object is a function from property names to values; NoProperty marks a
\* name the object does not have, JsUndefined a property whose value is undefined.
PropertyNames == { "a", "b", "c" }
NoProperty == "<no property>"
JsUndefined == "undefined"
EmptyObject == [k \in PropertyNames |-> NoProperty]

\* the objects whose defined values are v
ObjectsOf(v) == [PropertyNames -> { v, JsUndefined, NoProperty }]

\* o[k]
Read(o, k) == IF o[k] = NoProperty THEN JsUndefined ELSE o[k]

\* extend(target, source) on flat objects: for (name in source), a value that is
\* not undefined is set on target
Extend(target, source) ==
  [k \in PropertyNames |->
     IF source[k] \notin { NoProperty, JsUndefined } THEN source[k] ELSE target[k]]

\* extend({}, clonedParams, metadata, data) with the file's record merged before the metadata
MergeContextFileFirst(cp, md, data) ==
  Extend(Extend(Extend(EmptyObject, cp), data), md)

\* extend({}, clonedParams, metadata, data)
MergeContext(cp, md, data) ==
  Extend(Extend(Extend(EmptyObject, cp), md), data)

\* var clonedParams = extend(true, {}, params)
CloneParams ==
  /\ mergePc = "start"
  /\ clonedParams' = Extend(EmptyObject, params)
  /\ mergePc' = "cloned"
  /\ UNCHANGED <<runVars, shareVars, params, metadata, fileData, clone>>

\* var clone = extend({}, clonedParams, metadata, data)
BuildClone ==
  /\ mergePc = "cloned"
  /\ clone' = MergeContext(clonedParams, metadata, fileData)
  /\ mergePc' = "merged"
  /\ UNCHANGED <<runVars, shareVars, params, metadata, fileData, clonedParams>>

----------------------------------------------------------------------------
(* Data Merge: what two renders share *)

\* Bound: the writes the renderers make to their contexts.
MaxMutations == 2

ShareNames == { "x", "y" }
Sources == { "params", "metadata", "file1", "file2" }
Owners == Sources \cup { "cloned1", "cloned2" }
TopIds == Owners \cup { "ctx1", "ctx2" }
Renders == { 1, 2 }

ClonedId(r) == IF r = 1 THEN "cloned1" ELSE "cloned2"
CtxId(r) == IF r = 1 THEN "ctx1" ELSE "ctx2"
FileId(r) == IF r = 1 THEN "file1" ELSE "file2"

\* a property's value: none, a primitive, or a reference to the nested object <<owner, name>>
NoValue == [kind |-> "none", owner |-> "-", name |-> "-"]
Prim(o, n) == [kind |-> "prim", owner |-> o, name |-> n]
Ref(o, n) == [kind |-> "ref", owner |-> o, name |-> n]

EmptyTop == [n \in ShareNames |-> NoValue]

SourceTop(o, shape) ==
  [n \in ShareNames |->
     IF shape[n] = "none" THEN NoValue
     ELSE IF shape[n] = "prim" THEN Prim(o, n) ELSE Ref(o, n)]

\* extend(target, source), shallow: a reference is copied, the object it names is shared
ShallowExtend(target, source) ==
  [n \in ShareNames |-> IF source[n].kind # "none" THEN source[n] ELSE target[n]]

\* extend(true, {}, params) without the true: nested objects are shared with params
ShallowCloneParams(r) ==
  [top |-> ShallowExtend(EmptyTop, tops["params"]), heap |-> heap]

\* extend(true, {}, params): every nested object is copied into a new one
DeepCloneParams(r) ==
  [top  |-> [n \in ShareNames |->
               IF tops["params"][n].kind = "ref" THEN Ref(ClonedId(r), n)
               ELSE tops["params"][n]],
   heap |-> [id \in Owners \X ShareNames |->
               IF id[1] = ClonedId(r) /\ tops["params"][id[2]].kind = "ref"
               THEN heap[<<tops["params"][id[2]].owner, tops["params"][id[2]].name>>]
               ELSE heap[id]]]

\* convert, lines 150-151, for render r
BuildContext(r) ==
  /\ ~built[r]
  /\ LET cloned == DeepCloneParams(r)
         ctx == ShallowExtend(ShallowExtend(ShallowExtend(EmptyTop, cloned.top),
                                            tops["metadata"]), tops[FileId(r)])
     IN /\ tops' = [tops EXCEPT ![ClonedId(r)] = cloned.top, ![CtxId(r)] = ctx]
        /\ heap' = cloned.heap
  /\ built' = [built EXCEPT ![r] = TRUE]
  /\ UNCHANGED <<runVars, mergeVars, mutations>>

\* the renderer of render r sets property n of its context
MutateTop(r, n) ==
  /\ built[r]
  /\ mutations < MaxMutations
  /\ tops[CtxId(r)][n] # Prim("renderer", n)
  /\ tops' = [tops EXCEPT ![CtxId(r)][n] = Prim("renderer", n)]
  /\ mutations' = mutations + 1
  /\ UNCHANGED <<runVars, mergeVars, heap, built>>

\* the renderer of render r writes into the nested object that property n of its context names
MutateNested(r, n) ==
  /\ built[r]
  /\ mutations < MaxMutations
  /\ tops[CtxId(r)][n].kind = "ref"
  /\ LET v == tops[CtxId(r)][n]
     IN heap' = [heap EXCEPT ![<<v.owner, v.name>>] = 1 - @]
  /\ mutations' = mutations + 1
  /\ UNCHANGED <<runVars, mergeVars, tops, built>>

\* nothing of the sharing model is in play
NoSharing ==
  /\ tops = [id \in TopIds |-> EmptyTop]
  /\ heap = [id \in Owners \X ShareNames |-> 0]
  /\ built = [r \in Renders |-> FALSE]
  /\ mutations = 0

----------------------------------------------------------------------------
(* The run *)

\* the collections of at most max files with distinct keys, in iteration order;
\* a collection holds its contents as metalsmith read them, as Buffers
InputsUpTo(max) ==
  UNION { { s \in [1..n -> [key : FileKeys, layout : LayoutIds, kind : InputKinds]] :
              \A i, j \in 1..n : s[i].key = s[j].key => i = j }
          : n \in 0..(IF max < Cardinality(FileKeys) THEN max
                      ELSE Cardinality(FileKeys)) }

Inputs == InputsUpTo(MaxFiles)

\* files[key] of the collection as supplied
KeyIndex(in, k) ==
  LET hits == { i \in 1..Len(in) : in[i].key = k }
  IN IF hits = {} THEN 0 ELSE CHOOSE i \in hits : TRUE

\* the plugin's argument: nothing, the engine's name, or an object of options
OptsArgs ==
  { [form |-> "undefined", engine |-> Undefined, default |-> Undefined,
     layoutExtension |-> Undefined, pattern |-> Undefined, rename |-> FALSE] }
  \cup { [form |-> "string", engine |-> e, default |-> Undefined,
          layoutExtension |-> Undefined, pattern |-> Undefined, rename |-> FALSE]
          : e \in EngineNames \ {Undefined} }
  \cup [form : {"object"}, engine : EngineNames, default : Defaults,
        layoutExtension : { Undefined, <<"html">> }, pattern : Patterns,
        rename : BOOLEAN]

\* opts = opts || {}; if (typeof opts === 'string') opts = {engine: opts}
NormalizedOpts(arg) ==
  IF arg.form = "object" THEN arg
  ELSE [arg EXCEPT !.form = "object",
                   !.engine = IF arg.form = "string" THEN arg.engine ELSE Undefined]

\* the checks of plugin(opts): '"engine" option required', 'Unknown template engine'
SetupThrows(arg) ==
  LET o == NormalizedOpts(arg)
  IN ~Truthy(o.engine) \/ o.engine \notin ConsolidateProperties

\* the options mapped to local variables
LocalOptions(arg) ==
  LET o == NormalizedOpts(arg)
  IN [engine |-> o.engine,
      def |-> o.default,
      layoutExtension |-> IF Truthy(o.layoutExtension) THEN o.layoutExtension ELSE <<>>,
      pattern |-> o.pattern,
      rename |-> o.rename]

\* the locals before plugin(opts) has run
NoOptions ==
  [engine |-> Undefined, def |-> Undefined, layoutExtension |-> <<>>,
   pattern |-> Undefined, rename |-> FALSE]

\* plugin(opts): throws, or returns the per-run function
Plugin ==
  /\ pc = "setup"
  /\ IF SetupThrows(optsArg)
     THEN pc' = "setupThrown" /\ opts' = opts
     ELSE pc' = "ready" /\ opts' = LocalOptions(optsArg)
  /\ UNCHANGED <<optsArg, input, files, contents, templates, matches, idx, looped,
                 completed, called, tasks, doneCalls, mergeVars, shareVars>>

Init ==
  /\ optsArg \in { a \in OptsArgs : a.form = "object" /\ a.engine \in Renderers }
  /\ opts = LocalOptions(optsArg)
  /\ input \in Inputs
  /\ files = [k \in AllKeys |-> KeyIndex(input, k)]
  /\ contents = [i \in 1..Len(input) |-> [kind |-> input[i].kind, depth |-> 0]]
  /\ templates = <<>>
  /\ matches = <<>>
  /\ pc = "ready"
  /\ idx = 1
  /\ looped = FALSE
  /\ completed = 0
  /\ called = FALSE
  /\ tasks = <<>>
  /\ doneCalls = <<>>
  /\ mergePc = "off"
  /\ params = EmptyObject
  /\ metadata = EmptyObject
  /\ fileData = EmptyObject
  /\ clonedParams = EmptyObject
  /\ clone = EmptyObject
  /\ NoSharing

Next ==
  \/ SelectFiles
  \/ ConvertStart
  \/ EachFinish
  \/ \E t \in 1..Len(tasks) : RenderFails(t)
  \/ \E t \in 1..Len(tasks) : RenderSucceeds(t)

Spec == Init /\ [][Next]_vars

\* a run preceded by its setup, for every argument of plugin
SetupInit ==
  /\ optsArg \in OptsArgs
  /\ opts = NoOptions
  /\ input \in InputsUpTo(SetupMaxFiles)
  /\ files = [k \in AllKeys |-> KeyIndex(input, k)]
  /\ contents = [i \in 1..Len(input) |-> [kind |-> input[i].kind, depth |-> 0]]
  /\ templates = <<>>
  /\ matches = <<>>
  /\ pc = "setup"
  /\ idx = 1
  /\ looped = FALSE
  /\ completed = 0
  /\ called = FALSE
  /\ tasks = <<>>
  /\ doneCalls = <<>>
  /\ mergePc = "off"
  /\ params = EmptyObject
  /\ metadata = EmptyObject
  /\ fileData = EmptyObject
  /\ clonedParams = EmptyObject
  /\ clone = EmptyObject
  /\ NoSharing

SetupNext == Plugin \/ Next

SetupSpec == SetupInit /\ [][SetupNext]_vars

\* one call of convert's Data Merge on every combination of the three sources
MergeInit ==
  /\ optsArg = [form |-> "string", engine |-> <<"handlebars">>, default |-> Undefined,
                layoutExtension |-> Undefined, pattern |-> Undefined, rename |-> FALSE]
  /\ opts = LocalOptions(optsArg)
  /\ input = <<>>
  /\ files = [k \in AllKeys |-> 0]
  /\ contents = <<>>
  /\ templates = <<>>
  /\ matches = <<>>
  /\ pc = "off"
  /\ idx = 1
  /\ looped = FALSE
  /\ completed = 0
  /\ called = FALSE
  /\ tasks = <<>>
  /\ doneCalls = <<>>
  /\ mergePc = "start"
  /\ params \in ObjectsOf("1")
  /\ metadata \in ObjectsOf("2")
  /\ fileData \in ObjectsOf("3")
  /\ clonedParams = EmptyObject
  /\ clone = EmptyObject
  /\ NoSharing

MergeNext == CloneParams \/ BuildClone

MergeSpec == MergeInit /\ [][MergeNext]_vars

\* two renders of one run, each building its context and writing to it
ShareInit ==
  /\ optsArg = [form |-> "string", engine |-> <<"handlebars">>, default |-> Undefined,
                layoutExtension |-> Undefined, pattern |-> Undefined, rename |-> FALSE]
  /\ opts = LocalOptions(optsArg)
  /\ input = <<>>
  /\ files = [k \in AllKeys |-> 0]
  /\ contents = <<>>
  /\ templates = <<>>
  /\ matches = <<>>
  /\ pc = "off"
  /\ idx = 1
  /\ looped = FALSE
  /\ completed = 0
  /\ called = FALSE
  /\ tasks = <<>>
  /\ doneCalls = <<>>
  /\ mergePc = "off"
  /\ params = EmptyObject
  /\ metadata = EmptyObject
  /\ fileData = EmptyObject
  /\ clonedParams = EmptyObject
  /\ clone = EmptyObject
  /\ \E shapes \in [Sources -> [ShareNames -> { "none", "prim", "ref" }]] :
       tops = [id \in TopIds |->
                 IF id \in Sources THEN SourceTop(id, shapes[id]) ELSE EmptyTop]
  /\ heap = [id \in Owners \X ShareNames |-> 0]
  /\ built = [r \in Renders |-> FALSE]
  /\ mutations = 0

ShareNext ==
  \/ \E r \in Renders : BuildContext(r)
  \/ \E r \in Renders, n \in ShareNames : MutateTop(r, n)
  \/ \E r \in Renders, n \in ShareNames : MutateNested(r, n)

ShareSpec == ShareInit /\ [][ShareNext]_vars

----------------------------------------------------------------------------
(* What the claims speak of *)

\* the file keys of templates (the seeds) and of matches (the followers)
SeedKeys == { templates[j].file : j \in 1..Len(templates) }
FollowerKeys == { matches[j].file : j \in 1..Len(matches) }

\* the files the Selector selects, by their place in the collection
SelectedFiles == { i \in 1..Len(input) : check(input[i].key, input[i].layout) }

\* the selection loop has run to its end
Selected == pc \in {"phase1", "phase2"}

\* nothing is left to run: the loop has ended and every renderer has called back
RunOver ==
  /\ Selected
  /\ looped
  /\ \A t \in 1..Len(tasks) : tasks[t].status # "pending"

ErrTasks == { t \in 1..Len(tasks) : tasks[t].status = "err" }

SeedFailed == \E t \in ErrTasks : tasks[t].phase = "phase1"

\* C1: no render of a follower is initiated before every seed render has
\* completed, all of them without error.
C1_Barrier ==
  \A t \in 1..Len(tasks) :
    tasks[t].arg \in FollowerKeys =>
      \A k \in SeedKeys :
        \E u \in 1..(t - 1) : tasks[u].arg = k /\ tasks[u].status = "ok"

C1_Witness ==
  /\ Cardinality(SeedKeys) >= 2
  /\ \E t \in 1..Len(tasks) : tasks[t].arg \in FollowerKeys

\* C2 as stated: once a seed render has failed, every follower's contents is
\* identical to its contents before the run.
C2_Original ==
  SeedFailed =>
    \A j \in 1..Len(matches) :
      contents[matches[j].data] = [kind |-> input[matches[j].data].kind, depth |-> 0]

\* C2 amended: once a seed render has failed, no follower is rendered and
\* every follower record's contents is its contents before the run as the
\* string the selection loop made of it.
C2_FollowersOnlyCoerced ==
  SeedFailed =>
    /\ \A j \in 1..Len(matches) :
         contents[matches[j].data] = [kind |-> "String", depth |-> 0]
    /\ \A t \in 1..Len(tasks) : tasks[t].arg \notin FollowerKeys

C2_Witness ==
  /\ SeedFailed
  /\ RunOver
  /\ \E t \in 1..Len(tasks) : tasks[t].status = "ok"
  /\ \E j \in 1..Len(matches) : input[matches[j].data].kind = "Buffer"

\* the first selected file, in iteration order, that resolves to the template of file i
FirstFor(i) ==
  LET tpl == TemplateOf(input[i].layout)
  IN CHOOSE f \in SelectedFiles :
       /\ TemplateOf(input[f].layout) = tpl
       /\ \A g \in 1..(f - 1) :
            g \in SelectedFiles => TemplateOf(input[g].layout) # tpl

\* C3: after the selection loop, each distinct resolved template path has
\* exactly one seed, the first selected file resolving to it; every other
\* selected file is a follower; seeds and followers are disjoint and together
\* are the selected files.
C3_Partition ==
  Selected =>
    /\ \A i \in SelectedFiles :
         LET tpl   == TemplateOf(input[i].layout)
             first == FirstFor(i)
         IN /\ Cardinality({ j \in 1..Len(templates) : templates[j].template = tpl }) = 1
            /\ \E j \in 1..Len(templates) :
                 /\ templates[j].template = tpl
                 /\ templates[j].file = input[first].key
            /\ i # first =>
                 \E j \in 1..Len(matches) :
                   matches[j].file = input[i].key /\ matches[j].data = i
    /\ SeedKeys \cap FollowerKeys = {}
    /\ SeedKeys \cup FollowerKeys = { input[i].key : i \in SelectedFiles }
    /\ Len(templates) = Cardinality(SeedKeys)
    /\ Len(matches) = Cardinality(FollowerKeys)

C3_Witness ==
  /\ Selected
  /\ Len(templates) >= 2
  /\ Len(matches) >= 1

\* C4: done is invoked at most once; once a render has failed it has been
\* invoked with the first error in completion order, and with no later one.
C4_DoneOnceFirstError ==
  /\ Len(doneCalls) <= 1
  /\ ErrTasks # {} =>
       /\ Len(doneCalls) = 1
       /\ doneCalls[1] \in ErrTasks
       /\ \A u \in ErrTasks : tasks[doneCalls[1]].finished <= tasks[u].finished

C4_Witness ==
  /\ RunOver
  /\ Cardinality(ErrTasks) >= 2
  /\ \E t \in 1..Len(tasks) : tasks[t].status = "ok"

\* C5 as stated: a file the Selector does not select keeps its key, its
\* record and its contents.
C5_UnselectedUnchanged ==
  \A i \in 1..Len(input) :
    i \notin SelectedFiles =>
      /\ files[input[i].key] = i
      /\ contents[i] = [kind |-> input[i].kind, depth |-> 0]

\* the record the caller supplied under key k
OwnRecord(k) == KeyIndex(input, k)

\* C6 as stated: with rename, after the run every selected file whose render
\* succeeded has its record, rendered, under its .html key, and its original
\* key is gone when it differs.
C6_RenamedKeyHoldsRecord ==
  (opts.rename /\ RunOver) =>
    \A t \in 1..Len(tasks) :
      tasks[t].status = "ok" =>
        /\ files[RenamedKey(tasks[t].arg)] = OwnRecord(tasks[t].arg)
        /\ contents[OwnRecord(tasks[t].arg)].depth >= 1
        /\ RenamedKey(tasks[t].arg) # tasks[t].arg => files[tasks[t].arg] = 0

\* C7 as stated: the renders of a run write to pairwise distinct keys.
C7_DistinctKeys ==
  \A t, u \in 1..Len(tasks) : t # u => tasks[t].file # tasks[u].file

\* C8 as stated: in a run where every render succeeded, each selected file's
\* own record was rendered exactly once, once per template in phase 1 and
\* once per follower in phase 2.
C8_EachFileRenderedOnce ==
  (RunOver /\ ErrTasks = {}) =>
    /\ \A i \in SelectedFiles :
         /\ Cardinality({ t \in 1..Len(tasks) : tasks[t].data = i }) = 1
         /\ \A t \in 1..Len(tasks) : tasks[t].arg = input[i].key => tasks[t].data = i
    /\ Cardinality({ t \in 1..Len(tasks) : tasks[t].phase = "phase1" })
         = Cardinality({ TemplateOf(input[i].layout) : i \in SelectedFiles })
    /\ Cardinality({ t \in 1..Len(tasks) : tasks[t].phase = "phase2" }) = Len(matches)

Defined(v) == v \notin { NoProperty, JsUndefined }

\* C9 as stated: each key of the context has the file's value if the file has
\* the key, else the metadata's if the metadata has it, else the extra params'.
C9_Original ==
  mergePc = "merged" =>
    \A k \in PropertyNames :
      Read(clone, k) = IF fileData[k] # NoProperty THEN fileData[k]
                       ELSE IF metadata[k] # NoProperty THEN metadata[k]
                       ELSE Read(params, k)

\* C9 amended: each key of the context has the file's value if the file has
\* the key with a value other than undefined, else the metadata's if the
\* metadata has it with a value other than undefined, else the extra params'.
C9_DefinedPrecedence ==
  mergePc = "merged" =>
    \A k \in PropertyNames :
      Read(clone, k) = IF Defined(fileData[k]) THEN fileData[k]
                       ELSE IF Defined(metadata[k]) THEN metadata[k]
                       ELSE Read(params, k)

\* extraParams={a:1,b:1}, metadata={b:2,c:2}, fileData={c:3} gives {a:1,b:2,c:3}
C9_Witness ==
  /\ mergePc = "merged"
  /\ params = [a |-> "1", b |-> "1", c |-> NoProperty]
  /\ metadata = [a |-> NoProperty, b |-> "2", c |-> "2"]
  /\ fileData = [a |-> NoProperty, b |-> NoProperty, c |-> "3"]
  /\ clone = [a |-> "1", b |-> "2", c |-> "3"]

\* C10 as stated: the error handed to done names the failing file's key as
\* the caller supplied it and the layout id its template was resolved from.
C10_ErrorNamesFileAndLayout ==
  \A n \in 1..Len(doneCalls) :
    doneCalls[n] # 0 =>
      LET task == tasks[doneCalls[n]]
      IN /\ task.message.file = task.arg
         /\ task.message.layout = LayoutOrDefault(task.layout)

\* the collection is as the caller supplied it and nothing has been rendered
Untouched ==
  /\ files = [k \in AllKeys |-> KeyIndex(input, k)]
  /\ contents = [i \in 1..Len(input) |-> [kind |-> input[i].kind, depth |-> 0]]
  /\ tasks = <<>>

\* C11 as stated: plugin(opts) with a missing engine, or with an engine name
\* that is no renderer of consolidate, throws at setup, and no run touches a file.
C11_BadEngineFailsAtSetup ==
  LET engine == NormalizedOpts(optsArg).engine
  IN (pc # "setup" /\ (~Truthy(engine) \/ engine \notin Renderers)) =>
       pc = "setupThrown" /\ Untouched

\* C12: with rename, once a file's render has failed the collection holds
\* the file's record neither under its original key nor under its renamed key.
C12_FailedRenameLosesFile ==
  opts.rename =>
    \A t \in ErrTasks :
      /\ files[tasks[t].arg] \notin { OwnRecord(tasks[t].arg), tasks[t].data }
      /\ files[RenamedKey(tasks[t].arg)] \notin { OwnRecord(tasks[t].arg), tasks[t].data }

C12_Witness ==
  /\ opts.rename
  /\ RunOver
  /\ \E t \in ErrTasks : RenamedKey(tasks[t].arg) # tasks[t].arg
  /\ \E t \in 1..Len(tasks) : tasks[t].status = "ok"

\* C13 as stated: in a run that reported an error, every file whose render
\* completed successfully holds its rendered output as contents in the
\* collection once nothing is left to run.
C13_NoRollback ==
  (RunOver /\ ErrTasks # {}) =>
    \A t \in 1..Len(tasks) :
      tasks[t].status = "ok" =>
        /\ files[tasks[t].file] = tasks[t].data
        /\ contents[tasks[t].data].kind = "Buffer"
        /\ contents[tasks[t].data].depth >= 1

\* what a read of object id sees: each property's value, and for a nested object what it holds
ViewIn(tp, hp, id) ==
  [n \in ShareNames |->
     IF tp[id][n].kind = "ref"
     THEN <<tp[id][n], hp[<<tp[id][n].owner, tp[id][n].name>>]>>
     ELSE <<tp[id][n], 0>>]

\* a step leaves what is seen from object id as it was
Unobserved(id) == ViewIn(tops', heap', id) = ViewIn(tops, heap, id)

\* a step leaves every other render's context, the extra params, the metadata
\* and every other file's record as they were
OthersUnobserved(r) ==
  /\ \A q \in Renders \ {r} : Unobserved(CtxId(q)) /\ Unobserved(FileId(q))
  /\ Unobserved("params")
  /\ Unobserved("metadata")

Substituted(layout) ==
  IF layout = Undefined \/ Len(layout) = 0 THEN opts.def ELSE layout

\* some dot of the id has no "/" after it
DotInLastSegment(id) ==
  \E d \in 1..Len(id) : id[d] = "." /\ \A j \in d..Len(id) : id[j] # "/"

\* the string a layout id normalizes to
Normalized(layout) ==
  LET id == Substituted(layout)
  IN IF DotInLastSegment(id) THEN id ELSE id \o <<".">> \o opts.layoutExtension

\* C15: the resolver substitutes the default for an absent or empty layout id
\* and appends "." and layoutExtension exactly when the last "/"-segment of the
\* id has no dot; selected files whose ids normalize to the same string resolve
\* to the same template path, which has one entry in templates, each of them is
\* that entry's seed or a follower, and phase 1 starts one render for the entry.
C15_NormalizedIdsShareSeed ==
  Selected =>
    /\ \A i \in SelectedFiles :
         getLayoutPath(input[i].layout) = Normalized(input[i].layout)
    /\ \A i, k \in SelectedFiles :
         Normalized(input[i].layout) = Normalized(input[k].layout) =>
           LET tpl   == MetalsmithPath(Normalized(input[i].layout))
               seeds == { j \in 1..Len(templates) : templates[j].template = tpl }
           IN /\ TemplateOf(input[i].layout) = tpl
              /\ TemplateOf(input[k].layout) = tpl
              /\ Cardinality(seeds) = 1
              /\ \A j \in seeds :
                   /\ \A f \in {i, k} :
                        input[f].key = templates[j].file \/ input[f].key \in FollowerKeys
                   /\ Cardinality({ t \in 1..Len(tasks) :
                                      /\ tasks[t].phase = "phase1"
                                      /\ tasks[t].arg = templates[j].file }) <= 1

\* the seed renders are over; three selected files share one seed: one with no
\* layout of its own, one naming the default, one naming it with its extension
C15_Witness ==
  /\ pc = "phase2"
  /\ Len(templates) = 1
  /\ \E i, k, l \in SelectedFiles :
       /\ input[i].layout = Undefined
       /\ input[k].layout = <<"post">>
       /\ input[l].layout = <<"post", ".", "html">>
  /\ \E t \in 1..Len(tasks) : tasks[t].phase = "phase1" /\ tasks[t].status = "ok"

\* the renders of the running phase that have not called back
InFlight == { t \in 1..Len(tasks) : tasks[t].phase = pc /\ tasks[t].status = "pending" }

\* C17 as stated: the renders in flight within a phase stay under a cap that
\* does not grow with the phase; here the largest cap that binds at all, one
\* less than the files a phase can have.
C17_Original == Cardinality(InFlight) < Cardinality(FileKeys)

\* C17 amended: there is no cap. The loop starts the render of each file of the
\* phase whatever is in flight, so the renders in flight are bounded by the
\* number of files of the phase and by nothing else.
C17_FanOutUnbounded ==
  Selected =>
    /\ Cardinality(InFlight) <= Len(Items)
    /\ (~looped /\ idx <= Len(Items)) => ENABLED ConvertStart

\* every file of a phase of three is in flight at once
C17_Witness ==
  /\ Selected
  /\ Len(Items) = Cardinality(FileKeys)
  /\ Cardinality(InFlight) = Len(Items)

\* C16 as stated: once the selection loop has run, every file that passes the
\* Selector's check has a layout id of its own or there is a default, so
\* the resolver has been handed no absent id with no default to fall back on.
C16_ResolverGuarded ==
  pc \in {"phase1", "phase2", "thrown"} =>
    \A i \in SelectedFiles : Truthy(input[i].layout) \/ Truthy(opts.def)

\* C18 as stated, for finite runs: a run does not come to rest before it has
\* invoked done (renderers that call back are the steps that stay enabled).
C18_DoneInvoked == doneCalls # <<>> \/ ENABLED Next

====
